---- MODULE Spec2Model ----
(***************************************************************************)
(* A model of pylive's clip proxies: live/classes/clip.py (Clip and the    *)
(* generated property accessors) and live/classes/detail_clip.py           *)
(* (DetailClip).  The transport (live.query.Query) and the Track / Group   *)
(* objects are collaborators: the transport is modelled by the messages    *)
(* handed to it and the reply or failure it gives back, the tracks by the  *)
(* attributes clip.py reads and writes (index, playing, clips, tracks and  *)
(* the type tag).                                                          *)
(***************************************************************************)
EXTENDS Integers, Sequences, FiniteSets, TLC

VARIABLES
    tracks,     \* track id -> the Track / Group object's attributes
    clips,      \* clip object id -> the Clip object's attribute dictionary
    sent,       \* the messages the last call handed to the transport
    response,   \* the reply the transport gave to the last query (<<>> if none)
    ret,        \* what the last call returned, or the exception it raised
    last        \* the last call: its operation and the object it was called on

vars == <<tracks, clips, sent, response, ret, last>>

-----------------------------------------------------------------------------
(* Bounds of the model *)

\* longest flat reply the remote application sends
MaxLen == 13
\* the first element of a reply to a property or details query
Bases == {0, 1}
\* the values written through a property setter
Values == {0, 1}

-----------------------------------------------------------------------------
(* live.constants: the clip status values used by clip.py *)

CLIP_STATUS_EMPTY == "EMPTY"
CLIP_STATUS_STOPPED == "STOPPED"
CLIP_STATUS_PLAYING == "PLAYING"
CLIP_STATUS_STARTING == "STARTING"

-----------------------------------------------------------------------------
(* The Live set the clips live in: a Group (track 0) with three clip      *)
(* slots and two member tracks, and a plain track outside the group.      *)
(* A slot of track.clips holds a Clip object or None.                     *)

None == "None"

TrackIds == 0..3

\* track.clips of every track: clip object ids, None for an empty slot
TrackClips ==
    [t \in TrackIds |->
        CASE t = 0 -> <<"g0", "g1", "g2">>
          [] t = 1 -> <<None, "a1", None>>
          [] t = 2 -> <<"b0">>
          [] t = 3 -> <<"u0">>]

\* group.tracks: the member tracks of a Group, in order
GroupTracks ==
    [t \in TrackIds |-> IF t = 0 THEN <<1, 2>> ELSE <<>>]

\* type(track) is live.Group
IsGroup(t) == tracks[t].type = "Group"

\* the Clip objects built by the constructor
ClipIds == {"g0", "g1", "g2", "a1", "b0", "u0"}

\* (track, slot index) each constructed clip was built for
ClipTrack(c) ==
    CHOOSE t \in TrackIds : \E i \in 1..Len(TrackClips[t]) : TrackClips[t][i] = c

ClipIndex(c) ==
    (CHOOSE i \in 1..Len(TrackClips[ClipTrack(c)]) : TrackClips[ClipTrack(c)][i] = c) - 1

ClipName(c) == IF c \in {"g0", "a1"} THEN "" ELSE c

\* Clip.__init__(track, index, name, length = 4)
ClipInit(track, index, name, length) ==
    [track  |-> track,
     set    |-> "set",
     index  |-> index,
     name   |-> name,
     length |-> length,
     state  |-> CLIP_STATUS_STOPPED,
     logger |-> "logger"]

-----------------------------------------------------------------------------
(* Results of a call and messages to the transport *)

Returned(v) == [kind |-> "value", val |-> v]
ReturnedNone == [kind |-> "none", val |-> None]
Raised(e) == [kind |-> "raise", val |-> e]

\* Query.cmd(path, args): a one-way command
Cmd(path, args) == [kind |-> "cmd", path |-> path, args |-> args]
\* Query.query(path, args): a request that waits for the reply
Qry(path, args) == [kind |-> "query", path |-> path, args |-> args]

\* the call last made: operation, the object it was made on, and what it names
\* (the property of an accessor, the clip a snapshot was taken of)
Call(op, self, arg) == [op |-> op, self |-> self, arg |-> arg]

\* (self.track.index, self.index)
Address(self) == <<tracks[clips[self].track].index, clips[self].index>>

-----------------------------------------------------------------------------
(* Clip.play and Clip.stop *)

\* faulty variant: the test for None is left out
HasClipAtAnySlot(t, index) ==
    index < Len(tracks[t].clips)

\* self.index < len(track.clips) and track.clips[self.index] is not None
HasClipAt(t, index) ==
    /\ index < Len(tracks[t].clips)
    /\ tracks[t].clips[index + 1] # None

\* the body of the loop of play: one member track's flag
SetMember(trs, t, index) ==
    [trs EXCEPT ![t].playing = HasClipAt(t, index)]

\* for track in self.track.tracks: ... , over the members still to visit
RECURSIVE FanOut(_, _, _)
FanOut(trs, members, index) ==
    IF members = <<>> THEN trs
    ELSE FanOut(SetMember(trs, Head(members), index), Tail(members), index)

\* faulty variant: the type test is left out and the loop runs over the other tracks
PlayFlagsNoTypeTest(self) ==
    LET t == clips[self].track
        own == [tracks EXCEPT ![t].playing = TRUE]
        others == [k \in 1..Cardinality(TrackIds \ {t}) |->
                     CHOOSE u \in TrackIds \ {t} :
                        Cardinality({v \in TrackIds \ {t} : v < u}) = k - 1]
    IN  FanOut(own, others, clips[self].index)

\* the assignments of play, after the command was sent
PlayFlags(self) ==
    LET t == clips[self].track
        own == [tracks EXCEPT ![t].playing = TRUE]
    IN  IF IsGroup(t) THEN FanOut(own, tracks[t].tracks, clips[self].index)
        ELSE own

\* faulty variant: stop clears the members of a Group as play sets them
StopFlagsCascade(self) ==
    LET t == clips[self].track
    IN  [u \in TrackIds |->
            IF u = t \/ \E k \in 1..Len(tracks[t].tracks) : tracks[t].tracks[k] = u
            THEN [tracks[u] EXCEPT !.playing = FALSE]
            ELSE tracks[u]]

\* the assignment of stop, after the command was sent
StopFlags(self) ==
    [tracks EXCEPT ![clips[self].track].playing = FALSE]

\* faulty variant: the flags are set before the command is sent
play_flags_first(self) ==
    /\ sent' = <<Cmd("/live/clip_slot/fire", Address(self))>>
    /\ tracks' = PlayFlags(self)
    /\ ret' \in {Raised("TransportError"), ReturnedNone}
    /\ response' = <<>>
    /\ last' = Call("play", self, None)
    /\ UNCHANGED clips

\* faulty variant: play also records PLAYING in the clip's state
play_sets_state(self) ==
    /\ sent' = <<Cmd("/live/clip_slot/fire", Address(self))>>
    /\ \/ /\ ret' = Raised("TransportError")
          /\ UNCHANGED <<tracks, clips>>
       \/ /\ ret' = ReturnedNone
          /\ tracks' = PlayFlags(self)
          /\ clips' = [clips EXCEPT ![self] =
                          [a \in (DOMAIN clips[self]) \cup {"state"} |->
                              IF a = "state" THEN CLIP_STATUS_PLAYING ELSE clips[self][a]]]
    /\ response' = <<>>
    /\ last' = Call("play", self, None)

\* cmd raises and nothing after it runs, or cmd returns and the flags are set
play(self) ==
    /\ sent' = <<Cmd("/live/clip_slot/fire", Address(self))>>
    /\ \/ /\ ret' = Raised("TransportError")
          /\ tracks' = tracks
       \/ /\ ret' = ReturnedNone
          /\ tracks' = PlayFlags(self)
    /\ response' = <<>>
    /\ last' = Call("play", self, None)
    /\ UNCHANGED clips

stop(self) ==
    /\ sent' = <<Cmd("/live/clip/stop", Address(self))>>
    /\ \/ /\ ret' = Raised("TransportError")
          /\ tracks' = tracks
       \/ /\ ret' = ReturnedNone
          /\ tracks' = StopFlags(self)
    /\ response' = <<>>
    /\ last' = Call("stop", self, None)
    /\ UNCHANGED clips

-----------------------------------------------------------------------------
(* The replies of the remote application.  A reply is a flat sequence; its *)
(* elements are pairwise different, so that a reordering shows.  The       *)
(* remote answers a property query with (track, clip, value), a details    *)
(* query with (track, clip) and the eight fields, a notes query with       *)
(* (track, clip) and five values a note; the detail clip's replies lack    *)
(* the two indices.  A malformed reply is shorter or longer than that.     *)

Reply(n, base) == [i \in 1..n |-> base + i - 1]

\* replies to a property query: one value short, or well formed
ScalarReplies == {Reply(n, base) : n \in 2..3, base \in Bases}

\* replies to a details query: 7, 8, 9 or 10 values
DetailsReplies == {Reply(n, base) : n \in 7..10, base \in Bases}

\* replies to a notes query: every length up to MaxLen
NotesReplies == {Reply(n, n) : n \in 0..MaxLen}

\* Python's s[a:b] for 0 <= a <= b (0-based, clipped to the length of s)
Slice(s, a, b) ==
    LET hi == IF b < Len(s) THEN b ELSE Len(s)
    IN  IF a >= hi THEN <<>> ELSE [j \in 1..(hi - a) |-> s[a + j]]

\* len(range(0, n, 5))
RangeLen(n) == (n + 4) \div 5

\* [tuple(s[i:i + 5]) for i in range(0, len(s), 5)]
Chunks(s) ==
    [k \in 1..RangeLen(Len(s)) |-> Slice(s, 5 * (k - 1), 5 * (k - 1) + 5)]

\* faulty variant: the two leading indices are not taken off
ClipNotesNoStrip(reply) == Chunks(reply)

\* Clip.notes: the reply without its first two values, in chunks
ClipNotes(reply) == Chunks(Slice(reply, 2, Len(reply)))

\* DetailClip.get_notes: the whole reply, in chunks
DetailNotes(reply) == Chunks(reply)

\* ClipDetails(*values): the dataclass takes exactly its eight fields
ClipDetails(values) ==
    IF Len(values) = 8
    THEN Returned([name                  |-> values[1],
                   length                |-> values[2],
                   signature_numerator   |-> values[3],
                   signature_denominator |-> values[4],
                   start_marker          |-> values[5],
                   end_marker            |-> values[6],
                   loop_start            |-> values[7],
                   loop_end              |-> values[8]])
    ELSE Raised("TypeError")

-----------------------------------------------------------------------------
(* The generated accessors *)

\* "/live/%s/get/%s" % (class_identifier, prop)
GetPath(class_identifier, prop) == "/live/" \o class_identifier \o "/get/" \o prop

\* "/live/%s/set/%s" % (class_identifier, prop)
SetPath(class_identifier, prop) == "/live/" \o class_identifier \o "/set/" \o prop

\* faulty variant: the first value of the reply is returned
GetterResultFirstSlot(reply) ==
    IF Len(reply) > 2 THEN Returned(reply[1]) ELSE Raised("IndexError")

\* query(...)[2]
GetterResult(reply) ==
    IF Len(reply) > 2 THEN Returned(reply[3]) ELSE Raised("IndexError")

\* a call that issues one query and computes its result from the reply;
\* result maps every reply the remote may give to what the call makes of it
QueryCall(call, msg, result) ==
    /\ sent' = <<msg>>
    /\ last' = call
    /\ \/ /\ response' = <<>>
          /\ ret' = Raised("TransportError")
       \/ \E reply \in DOMAIN result :
             /\ response' = reply
             /\ ret' = result[reply]
    /\ UNCHANGED <<tracks, clips>>

\* a call that issues one command and returns nothing
CmdCall(call, msg) ==
    /\ sent' = <<msg>>
    /\ last' = call
    /\ response' = <<>>
    /\ ret' \in {ReturnedNone, Raised("TransportError")}
    /\ UNCHANGED <<tracks, clips>>

\* faulty variant: the getter stores what it read in the track's playing flag
make_getter_mirroring(class_identifier, prop, self) ==
    /\ sent' = <<Qry(GetPath(class_identifier, prop), Address(self))>>
    /\ last' = Call("get", self, prop)
    /\ \/ /\ response' = <<>>
          /\ ret' = Raised("TransportError")
          /\ tracks' = tracks
       \/ \E reply \in ScalarReplies :
             /\ response' = reply
             /\ ret' = GetterResult(reply)
             /\ tracks' = IF Len(reply) > 2 /\ prop = "is_playing"
                          THEN [tracks EXCEPT ![clips[self].track].playing = (reply[3] # 0)]
                          ELSE tracks
    /\ UNCHANGED clips

\* the function make_getter returns, called on self
make_getter(class_identifier, prop, self) ==
    QueryCall(Call("get", self, prop),
              Qry(GetPath(class_identifier, prop), Address(self)),
              [reply \in ScalarReplies |-> GetterResult(reply)])

\* the function make_setter returns, called on self with value
make_setter(class_identifier, prop, self, value) ==
    CmdCall(Call("set", self, prop),
            Cmd(SetPath(class_identifier, prop), Address(self) \o <<value>>))

\* the properties of Clip built from make_getter / make_setter
Props ==
    {"signature_numerator", "signature_denominator", "start_marker", "end_marker",
     "loop_start", "loop_end", "pitch_coarse", "is_playing", "is_midi_clip",
     "is_audio_clip"}

-----------------------------------------------------------------------------
(* The other operations of Clip *)

DetailsResult(reply) == ClipDetails(Slice(reply, 2, Len(reply)))

NotesResult(reply) == Returned(ClipNotes(reply))

details(self) ==
    QueryCall(Call("details", self, None),
              Qry("/live/clip/get/details", Address(self)),
              [reply \in DetailsReplies |-> DetailsResult(reply)])

notes(self) ==
    QueryCall(Call("notes", self, None),
              Qry("/live/clip/get/notes", Address(self)),
              [reply \in NotesReplies |-> NotesResult(reply)])

remove_notes(self) ==
    CmdCall(Call("remove_notes", self, None),
            Cmd("/live/clip/remove/notes", Address(self)))

add_note(self, pitch, start_time, duration, velocity, mute) ==
    CmdCall(Call("add_note", self, None),
            Cmd("/live/clip/add/notes",
                Address(self) \o <<pitch, start_time, duration, velocity, mute>>))

set_name(self, name) ==
    CmdCall(Call("set_name", self, None),
            Cmd("/live/clip/set/name", Address(self) \o <<name>>))

\* the notes and names the callers pass
NoteArgs == {<<60, 0, 1, 100, FALSE>>, <<72, 2, 1, 64, TRUE>>}
Names == {"", "Bass"}

-----------------------------------------------------------------------------
(* Snapshots: __getstate__ and __setstate__ *)

SnapshotFields == {"track", "index", "name", "length"}

\* the dictionary self.__getstate__() returns
__getstate__(self) == [a \in SnapshotFields |-> clips[self][a]]

\* the attribute dictionary of obj after obj.__setstate__(d)
__setstate__(obj, d) ==
    [a \in (DOMAIN obj) \cup SnapshotFields |->
        IF a \in SnapshotFields THEN d[a] ELSE obj[a]]

\* an object made without running __init__ (as unpickling makes it)
NewObject == [a \in {} |-> None]

\* a snapshot of self is taken
snapshot(self) ==
    /\ ret' = Returned(__getstate__(self))
    /\ last' = Call("__getstate__", self, self)
    /\ sent' = <<>>
    /\ response' = <<>>
    /\ UNCHANGED <<tracks, clips>>

\* the snapshot just taken is restored into a new object, "copy"
restore ==
    /\ last.op = "__getstate__"
    /\ clips' = [c \in (DOMAIN clips) \cup {"copy"} |->
                    IF c = "copy" THEN __setstate__(NewObject, ret.val) ELSE clips[c]]
    /\ ret' = ReturnedNone
    /\ last' = Call("__setstate__", "copy", last.arg)
    /\ sent' = <<>>
    /\ response' = <<>>
    /\ UNCHANGED tracks

-----------------------------------------------------------------------------
(* DetailClip: the clip selected in the remote application *)

fetch_details ==
    QueryCall(Call("fetch_details", "DetailClip", None),
              Qry("/live/view/detail_clip/get/details", <<>>),
              [reply \in DetailsReplies |-> ClipDetails(reply)])

DetailNotesResult(reply) == Returned(DetailNotes(reply))

get_notes ==
    QueryCall(Call("get_notes", "DetailClip", None),
              Qry("/live/view/detail_clip/get/notes", <<>>),
              [reply \in NotesReplies |-> DetailNotesResult(reply)])

detail_remove_notes ==
    CmdCall(Call("detail_remove_notes", "DetailClip", None),
            Cmd("/live/view/detail_clip/remove/notes", <<>>))

detail_add_note(pitch, start_time, duration, velocity, mute) ==
    CmdCall(Call("detail_add_note", "DetailClip", None),
            Cmd("/live/view/detail_clip/add/notes",
                <<pitch, start_time, duration, velocity, mute>>))

-----------------------------------------------------------------------------

Init ==
    /\ tracks = [t \in TrackIds |->
                    [index   |-> t,
                     type    |-> IF GroupTracks[t] # <<>> THEN "Group" ELSE "Track",
                     playing |-> FALSE,
                     clips   |-> TrackClips[t],
                     tracks  |-> GroupTracks[t]]]
    /\ clips = [c \in ClipIds |-> ClipInit(ClipTrack(c), ClipIndex(c), ClipName(c), 4)]
    /\ sent = <<>>
    /\ response = <<>>
    /\ ret = ReturnedNone
    /\ last = Call("__init__", None, None)

Play == \E self \in DOMAIN clips : play(self)
Stop == \E self \in DOMAIN clips : stop(self)

PropertyGet == \E self \in DOMAIN clips, p \in Props : make_getter("clip", p, self)
PropertySet ==
    \E self \in DOMAIN clips, p \in Props, v \in Values : make_setter("clip", p, self, v)
Details == \E self \in DOMAIN clips : details(self)
Notes == \E self \in DOMAIN clips : notes(self)
RemoveNotes == \E self \in DOMAIN clips : remove_notes(self)
AddNote ==
    \E self \in DOMAIN clips, n \in NoteArgs : add_note(self, n[1], n[2], n[3], n[4], n[5])
SetName == \E self \in DOMAIN clips, name \in Names : set_name(self, name)
Snapshot == \E self \in DOMAIN clips : snapshot(self)
DetailAddNote == \E n \in NoteArgs : detail_add_note(n[1], n[2], n[3], n[4], n[5])

Next ==
    \/ Play
    \/ Stop
    \/ PropertyGet
    \/ PropertySet
    \/ Details
    \/ Notes
    \/ RemoveNotes
    \/ AddNote
    \/ SetName
    \/ Snapshot
    \/ restore
    \/ fetch_details
    \/ get_notes
    \/ detail_remove_notes
    \/ DetailAddNote

Spec == Init /\ [][Next]_vars

(* Restrictions of Spec to groups of operations.  Every behaviour of a      *)
(* restriction is a behaviour of Spec.                                     *)

\* play, stop and the snapshots
PlaybackNext ==
    \/ Play
    \/ Stop
    \/ Snapshot
    \/ restore

PlaybackSpec == Init /\ [][PlaybackNext]_vars

\* play, stop and every accessor of Clip
ClipNext ==
    \/ Play
    \/ Stop
    \/ PropertyGet
    \/ PropertySet
    \/ Details
    \/ Notes
    \/ RemoveNotes
    \/ AddNote
    \/ SetName

ClipSpec == Init /\ [][ClipNext]_vars

\* the accessors of Clip and DetailClip: the calls that only talk to the transport
QueryNext ==
    \/ PropertyGet
    \/ PropertySet
    \/ Details
    \/ Notes
    \/ RemoveNotes
    \/ AddNote
    \/ SetName
    \/ fetch_details
    \/ get_notes
    \/ detail_remove_notes
    \/ DetailAddNote

QuerySpec == Init /\ [][QueryNext]_vars

-----------------------------------------------------------------------------
(* Properties of play and stop *)

\* the track the last call's clip belongs to, and the clip's slot index
LastTrack == clips[last.self].track
LastIndex == clips[last.self].index

Succeeded(op) == last.op = op /\ ret.kind = "none"

\* C1: after play() on a clip at slot i of a Group, the group is playing and
\* every member track is playing exactly if it has a non-null clip at slot i
\* (it is not playing if slot i is None or the member has fewer than i+1 slots).
C1_GroupPlayFansOut ==
    (Succeeded("play") /\ tracks[LastTrack].type = "Group") =>
        /\ tracks[LastTrack].playing = TRUE
        /\ \A k \in 1..Len(tracks[LastTrack].tracks) :
              LET m == tracks[LastTrack].tracks[k]
              IN  tracks[m].playing =
                    (/\ LastIndex + 1 <= Len(tracks[m].clips)
                     /\ tracks[m].clips[LastIndex + 1] # None)

\* a group clip was played: one member has a clip at the slot and plays, one
\* has None there and one is too short, and neither of those plays
C1_Witness ==
    /\ Succeeded("play")
    /\ tracks[LastTrack].type = "Group"
    /\ tracks[LastTrack].playing
    /\ \E k \in 1..Len(tracks[LastTrack].tracks) :
          tracks[tracks[LastTrack].tracks[k]].playing
    /\ \E k \in 1..Len(tracks[LastTrack].tracks) :
          LET m == tracks[LastTrack].tracks[k]
          IN  /\ ~tracks[m].playing
              /\ LastIndex + 1 > Len(tracks[m].clips)
    /\ LastIndex = 1

\* C2: play() on a clip of a track that is no Group sets that track's playing
\* flag and changes no other track.
C2_PlainPlayOwnTrackOnly ==
    [][(last'.op = "play" /\ ret'.kind = "none"
            /\ tracks[clips[last'.self].track].type # "Group") =>
        /\ tracks'[clips[last'.self].track].playing = TRUE
        /\ \A u \in TrackIds \ {clips[last'.self].track} : tracks'[u] = tracks[u]]_vars

\* a member track's clip was played while its group and its sibling were not
\* playing and the track outside the group was
C2_Witness ==
    /\ Succeeded("play")
    /\ LastTrack = 1
    /\ tracks[1].playing
    /\ ~tracks[0].playing
    /\ ~tracks[2].playing
    /\ tracks[3].playing

\* C3: stop() clears the playing flag of the clip's own track and changes no
\* other track, the members of a Group included.
C3_StopOwnTrackOnly ==
    [][(last'.op = "stop" /\ ret'.kind = "none") =>
        /\ tracks'[clips[last'.self].track].playing = FALSE
        /\ \A u \in TrackIds \ {clips[last'.self].track} : tracks'[u] = tracks[u]]_vars

\* a group clip was stopped and a member of the group is still playing
C3_Witness ==
    /\ Succeeded("stop")
    /\ tracks[LastTrack].type = "Group"
    /\ ~tracks[LastTrack].playing
    /\ \E k \in 1..Len(tracks[LastTrack].tracks) :
          tracks[tracks[LastTrack].tracks[k]].playing

\* C10: when the transport fails in play() or stop(), the failure reaches the
\* caller, the command is the only thing that was attempted, and no track's
\* playing flag has changed.
C10_FailureLeavesFlags ==
    [][(last'.op \in {"play", "stop"} /\ ret'.kind = "raise") =>
        /\ ret'.val = "TransportError"
        /\ Len(sent') = 1
        /\ sent'[1].kind = "cmd"
        /\ tracks' = tracks]_vars

\* play() failed on a group clip whose group was not playing and that would
\* have changed a member's flag
C10_Witness ==
    /\ last.op = "play"
    /\ ret.kind = "raise"
    /\ tracks[LastTrack].type = "Group"
    /\ ~tracks[LastTrack].playing
    /\ \E k \in 1..Len(tracks[LastTrack].tracks) :
          LET m == tracks[LastTrack].tracks[k]
          IN  tracks[m].playing /\ LastIndex + 1 > Len(tracks[m].clips)

-----------------------------------------------------------------------------
(* Properties of the state field and of the snapshots *)

\* C5, as claimed: state is STOPPED or PLAYING, play() leaves it PLAYING and
\* stop() leaves it STOPPED.
C5_PlayAssertsPlaying ==
    /\ \A c \in ClipIds : clips[c].state \in {CLIP_STATUS_STOPPED, CLIP_STATUS_PLAYING}
    /\ (Succeeded("play") /\ last.self \in ClipIds) =>
            clips[last.self].state = CLIP_STATUS_PLAYING
    /\ (Succeeded("stop") /\ last.self \in ClipIds) =>
            clips[last.self].state = CLIP_STATUS_STOPPED

\* C5, amended: the state of a constructed clip is STOPPED on construction and
\* stays STOPPED, after play() and stop() too; it is never PLAYING, STARTING
\* or EMPTY.
C5_StateStaysStopped ==
    \A c \in ClipIds : clips[c].state = CLIP_STATUS_STOPPED

\* play() went through on a constructed clip: its track plays, its state is
\* still STOPPED
C5_Witness ==
    /\ Succeeded("play")
    /\ last.self \in ClipIds
    /\ tracks[LastTrack].playing
    /\ clips[last.self].state = CLIP_STATUS_STOPPED

\* C6: a snapshot holds exactly track, index, name and length, and the clip
\* restored from it has the same four values and state STOPPED.
C6_RestoreResetsState ==
    /\ (last.op = "__getstate__" /\ ret.kind = "value") =>
          /\ DOMAIN ret.val = {"track", "index", "name", "length"}
          /\ \A a \in DOMAIN ret.val : ret.val[a] = clips[last.self][a]
    /\ last.op = "__setstate__" =>
          /\ \A a \in {"track", "index", "name", "length"} :
                clips[last.self][a] = clips[last.arg][a]
          /\ "state" \in DOMAIN clips[last.self]
          /\ clips[last.self].state = CLIP_STATUS_STOPPED

-----------------------------------------------------------------------------
(* Properties of the accessors *)

AccessorOps ==
    {"get", "set", "details", "notes", "remove_notes", "add_note", "set_name"}

\* C7: the property getters and setters, details, notes, remove_notes,
\* add_note and set_name change no clip's state and no track's playing flag.
C7_AccessorsLeaveMirror ==
    [][last'.op \in AccessorOps =>
        /\ \A t \in TrackIds : tracks'[t].playing = tracks[t].playing
        /\ \A c \in DOMAIN clips :
              /\ c \in DOMAIN clips'
              /\ ("state" \in DOMAIN clips'[c]) = ("state" \in DOMAIN clips[c])
              /\ "state" \in DOMAIN clips[c] => clips'[c].state = clips[c].state]_vars

\* is_playing was read from the remote for a clip whose track is locally not
\* playing while another track is
C7_Witness ==
    /\ last.op = "get"
    /\ last.arg = "is_playing"
    /\ ret.kind = "value"
    /\ ret.val # 0
    /\ ~tracks[LastTrack].playing
    /\ \E t \in TrackIds : tracks[t].playing

\* C9: a property read issues exactly one query, /live/clip/get/<p> with
\* (track.index, index), and returns the third value of that query's reply;
\* a property write issues exactly one command, /live/clip/set/<p> with
\* (track.index, index, value), and no query.
C9_AccessorMessages ==
    /\ last.op = "get" =>
          /\ last.arg \in Props
          /\ Len(sent) = 1
          /\ sent[1].kind = "query"
          /\ sent[1].path = "/live/clip/get/" \o last.arg
          /\ sent[1].args = <<tracks[LastTrack].index, LastIndex>>
          /\ ret.kind = "value" => (Len(response) >= 3 /\ ret.val = response[3])
          /\ (last.arg = "loop_start") => sent[1].path = "/live/clip/get/loop_start"
    /\ last.op = "set" =>
          /\ last.arg \in Props
          /\ Len(sent) = 1
          /\ sent[1].kind = "cmd"
          /\ sent[1].path = "/live/clip/set/" \o last.arg
          /\ Len(sent[1].args) = 3
          /\ sent[1].args[1] = tracks[LastTrack].index
          /\ sent[1].args[2] = LastIndex
          /\ sent[1].args[3] \in Values
          /\ response = <<>>
          /\ (last.arg = "loop_start") => sent[1].path = "/live/clip/set/loop_start"

\* loop_start was read and the reply's third value, which differs from its
\* first, came back
C9_Witness ==
    /\ last.op = "get"
    /\ last.arg = "loop_start"
    /\ ret.kind = "value"
    /\ Len(response) = 3
    /\ response[3] # response[1]
    /\ ret.val = response[3]

-----------------------------------------------------------------------------
(* Properties of the note queries *)

\* the flat note values of the last note query: the reply without its two
\* leading indices for Clip.notes, the whole reply for DetailClip.get_notes
Flat ==
    IF last.op = "notes"
    THEN [j \in 1..(IF Len(response) > 2 THEN Len(response) - 2 ELSE 0) |-> response[j + 2]]
    ELSE response

IsNoteQuery == last.op \in {"notes", "get_notes"} /\ ret.kind = "value"

\* C4: a flat sequence of 5k+r values (0 <= r < 5) comes back as exactly k
\* tuples of 5 values in the original order; the r trailing values are dropped.
C4_WholeTuplesOnly ==
    IsNoteQuery =>
        /\ Len(ret.val) = Len(Flat) \div 5
        /\ \A j \in 1..Len(ret.val) :
              /\ Len(ret.val[j]) = 5
              /\ \A m \in 1..5 : ret.val[j][m] = Flat[5 * (j - 1) + m]

====
